---------------------------- MODULE Spec2Model ----------------------------
(***************************************************************************)
(* A model of newrelic-mcp: the identifier resolver of NewRelicClient      *)
(* (client.py), its access layer and roster fetch, the shaping functions   *)
(* get_app_metric_data, get_slow_transactions, get_top_database_operations *)
(* and get_transaction_details (client.py), the tools and the breakdown    *)
(* computation of server.py, and the startup of run_server (server.py)     *)
(* and main (cli.py).  Each component has its own specification over the   *)
(* one tuple of variables.                                                 *)
(*                                                                         *)
(* Numbers.  The program computes on floats and rounds with round(x, 2).   *)
(* The model keeps a raw quantity as a natural number of thousandths       *)
(* ("milli") and a rounded one as a natural number of hundredths           *)
(* ("centi"); round(x, 2) is RoundDiv(milli, 10): exact division, ties to  *)
(* the even neighbour, as Python rounds a value that is exactly a tie.     *)
(* The remote API reports durations, counts and rates, which are finite    *)
(* and not negative.                                                       *)
(***************************************************************************)
EXTENDS Integers, Sequences, FiniteSets

VARIABLES
    \* ---- NewRelicClient (identifier resolver) ----
    cache,      \* self._application_id_cache: a dict, here a function on the names it holds
    roster,     \* self._applications_available: a list of {name, id}
    pc,         \* each find_newrelic_application_id invocation's position
    arg,        \* its application_name
    ret,        \* the value it returned
    resp,       \* the outcome of its acompletion call
    calls,      \* how many acompletion calls it issued
    started,    \* how many invocations have been dispatched
    genCalls,   \* acompletion calls issued so far, per application name
    priorOk,    \* whether an invocation for the same name had returned before this one started
    firstRet,   \* the value the first returned invocation of each name returned
    \* ---- get_app_metric_data ----
    mNames,     \* the metric_names the call was given
    mIn,        \* what the request handed back: "error", "nodata" or "data"
    mPc,        \* position of the call: "idle", "fold", "done"
    formatted,  \* formatted_metrics: (metric name, value name) -> accumulator
    folded,     \* the sample values folded so far, per pair, in order
    mCount,     \* how many samples the fold has taken
    mOut,       \* what the call returned
    \* ---- get_top_database_operations ----
    dbIn,       \* the Insights result the call received
    dbOut,      \* what the call returned
    dbTool,     \* what the tool get_application_top_database_operations_details returned
    \* ---- get_transaction_breakdown_segments ----
    bdIn,       \* the two Insights results the call received
    bdOut,      \* what the call returned
    \* ---- get_slow_transactions and get_application_slow_transactions_details ----
    stIn,       \* the Insights result get_slow_transactions received
    stOut,      \* what get_slow_transactions returned
    sdOut,      \* what the tool returned
    \* ---- get_transaction_details ----
    tdIn,       \* the Insights result the call received
    tdOut,      \* what the call returned
    \* ---- _make_request and _make_insights_request ----
    rqIn,       \* the key and the network outcome of the _make_request call
    rqOut,      \* what _make_request returned
    iqIn,       \* the network outcome of the _make_insights_request call
    iqOut,      \* what _make_insights_request returned
    netCalls,   \* how many network calls each of the two has made
    \* ---- startup ----
    suEntry,    \* the entry point of the run: "run_server" or "cli"
    suConfig,   \* where the run gets each required credential from
    suPc,       \* the position of the startup
    suStatus,   \* the exit status of the process, once it has exited
    suRoster,   \* whether initialize_newrelic has completed
    suAccepted, \* how many tool calls the server has accepted
    \* ---- _fetch_newrelic_applications_details ----
    faIn,       \* the response the call received
    faOut,      \* what the call returned, or that it raised
    \* ---- the tools, up to their first query ----
    tool,       \* the tool each invocation is an invocation of
    toolOut,    \* how the invocation went: it failed, or it proceeded to its queries
    queried,    \* whether the invocation has issued a query to the access layer
    \* ---- get_transaction_breakdown_segments, query by query ----
    bdPc,       \* position of the call: "idle", "second" (before its second query), "done"
    bdQueries,  \* the queries the call has handed to _make_insights_request, in order
    \* ---- the roster and the remote system ----
    remote,     \* the applications New Relic has, in the order they were added
    loaded,     \* how many of them there were when initialize_newrelic last ran
    prompt,     \* the application list of the system prompt built last
    \* ---- get_application_slow_transactions_details, from its invocation on ----
    sdName,     \* the application_name the tool was invoked with
    sdRuns      \* how many breakdown computations have run in the invocation

resolverVars == <<cache, roster, pc, arg, ret, resp, calls, started, genCalls, priorOk, firstRet>>
metricVars == <<mNames, mIn, mPc, formatted, folded, mCount, mOut>>
dbVars == <<dbIn, dbOut, dbTool>>
bdVars == <<bdIn, bdOut>>
slowVars == <<stIn, stOut, sdOut>>
detailsVars == <<tdIn, tdOut>>
accessVars == <<rqIn, rqOut, iqIn, iqOut, netCalls>>
startupVars == <<suEntry, suConfig, suPc, suStatus, suRoster, suAccepted>>
fetchVars == <<faIn, faOut>>
toolVars == <<tool, toolOut, queried>>
bdStepVars == <<bdPc, bdQueries>>
rosterVars == <<remote, loaded, prompt>>
slowToolVars == <<sdName, sdRuns>>
vars == <<resolverVars, metricVars, dbVars, bdVars, slowVars, detailsVars, accessVars,
          startupVars, fetchVars, toolVars, bdStepVars, rosterVars, slowToolVars>>

\* What the steps of one component leave alone: the state of the others.
notResolver == <<metricVars, dbVars, bdVars, slowVars, detailsVars, accessVars,
    startupVars, fetchVars, toolVars, bdStepVars, rosterVars,
    slowToolVars>>
notMetric == <<resolverVars, dbVars, bdVars, slowVars, detailsVars, accessVars,
    startupVars, fetchVars, toolVars, bdStepVars, rosterVars,
    slowToolVars>>
notDb == <<resolverVars, metricVars, bdVars, slowVars, detailsVars, accessVars,
    startupVars, fetchVars, toolVars, bdStepVars, rosterVars,
    slowToolVars>>
notBd == <<resolverVars, metricVars, dbVars, slowVars, detailsVars, accessVars,
    startupVars, fetchVars, toolVars, bdStepVars, rosterVars,
    slowToolVars>>
notSlow == <<resolverVars, metricVars, dbVars, bdVars, detailsVars, accessVars,
    startupVars, fetchVars, toolVars, bdStepVars, rosterVars,
    slowToolVars>>
notDetails == <<resolverVars, metricVars, dbVars, bdVars, slowVars, accessVars,
    startupVars, fetchVars, toolVars, bdStepVars, rosterVars,
    slowToolVars>>
notAccess == <<resolverVars, metricVars, dbVars, bdVars, slowVars, detailsVars,
    startupVars, fetchVars, toolVars, bdStepVars, rosterVars,
    slowToolVars>>
notStartup == <<resolverVars, metricVars, dbVars, bdVars, slowVars, detailsVars,
    accessVars, fetchVars, toolVars, bdStepVars, rosterVars,
    slowToolVars>>
notFetch == <<resolverVars, metricVars, dbVars, bdVars, slowVars, detailsVars,
    accessVars, startupVars, toolVars, bdStepVars, rosterVars,
    slowToolVars>>
notTools == <<metricVars, dbVars, bdVars, slowVars, detailsVars,
    accessVars, startupVars, fetchVars, bdStepVars, rosterVars,
    slowToolVars>>
notBdSteps == <<resolverVars, metricVars, dbVars, slowVars, detailsVars, accessVars,
    startupVars, fetchVars, toolVars, rosterVars,
    slowToolVars>>
notRoster == <<metricVars, dbVars, bdVars, slowVars, detailsVars, accessVars,
    startupVars, fetchVars, bdStepVars, slowToolVars>>
notSlowTool == <<metricVars, dbVars, bdVars, detailsVars, accessVars,
    startupVars, fetchVars, bdStepVars, rosterVars>>

(***************************************************************************)
(* Bounds of the model.                                                    *)
(***************************************************************************)
MaxInvocations == 3
MaxSamples == 4
MaxFacets == 3
MaxApps == 3
MaxResolves == 2

(***************************************************************************)
(* Arithmetic.                                                             *)
(***************************************************************************)
Min(a, b) == IF a <= b THEN a ELSE b

\* round(a / b) for a >= 0, b > 0: to the nearest integer, a tie to the even one.
RoundDiv(a, b) ==
    LET q == a \div b
        r == a % b
    IN  IF 2 * r < b THEN q
        ELSE IF 2 * r > b THEN q + 1
        ELSE IF q % 2 = 0 THEN q ELSE q + 1

\* round(x, 2) of a value given in thousandths: the result in hundredths.
Round2(milli) == RoundDiv(milli, 10)

RECURSIVE SumSeq(_)
SumSeq(s) == IF s = <<>> THEN 0 ELSE Head(s) + SumSeq(Tail(s))

(***************************************************************************)
(* list.sort(key=..., reverse=True): a stable sort, descending by key.     *)
(* StablePermDesc(keys) is the order of the indices after the sort: keys   *)
(* non-increasing, equal keys in their original order.                     *)
(***************************************************************************)
InsertDescBeforeEqual(perm, keys, i) ==
    LET ahead == {j \in 1..Len(perm) : keys[perm[j]] > keys[i]}
        k == Cardinality(ahead)
    IN  SubSeq(perm, 1, k) \o <<i>> \o SubSeq(perm, k + 1, Len(perm))
InsertDesc(perm, keys, i) ==
    LET ahead == {j \in 1..Len(perm) : keys[perm[j]] >= keys[i]}
        k == Cardinality(ahead)
    IN  SubSeq(perm, 1, k) \o <<i>> \o SubSeq(perm, k + 1, Len(perm))

RECURSIVE SortPrefix(_, _)
SortPrefix(keys, n) ==
    IF n = 0 THEN <<>> ELSE InsertDesc(SortPrefix(keys, n - 1), keys, n)

StablePermDesc(keys) == SortPrefix(keys, Len(keys))

\* The same list sorted without reverse=True.
SortedAscBy(s, keys) ==
    LET perm == StablePermDesc([i \in 1..Len(keys) |-> 0 - keys[i]])
    IN  [i \in 1..Len(s) |-> s[perm[i]]]
SortedDescBy(s, keys) ==
    LET perm == StablePermDesc(keys)
    IN  [i \in 1..Len(s) |-> s[perm[i]]]

(***************************************************************************)
(* The identifier resolver: NewRelicClient.find_newrelic_application_id    *)
(* and initialize_newrelic.                                                *)
(***************************************************************************)
Names == {"orders", "billing"}
\* What the generation model may answer: an id of the roster, another id, nothing.
Texts == {"1", "7", ""}
None == "<None>"

Invocations == 1..MaxInvocations

\* The outcome of "await acompletion(...)" followed by response.choices[0].message.content:
\* the content, or an exception (of the call, or of the subscript on an empty choices).
Outcomes == [kind : {"text"}, content : Texts] \cup {[kind |-> "raise", content |-> ""]}
NoOutcome == [kind |-> "none", content |-> ""]

\* The answers of GET applications.json that _make_request may hand back: an
\* {error} object, or a body whose applications carry a health_status or lack it.
Missing == "<missing>"
App(n, i, h) == [name |-> n, id |-> i, health_status |-> h]
Responses ==
    { [error |-> TRUE, applications |-> <<>>],
      [error |-> FALSE, applications |-> <<>>],
      [error |-> FALSE, applications |-> <<App("orders", 1, "green")>>],
      [error |-> FALSE, applications |-> <<App("orders", 1, "green"), App("billing", 2, "grey")>>],
      [error |-> FALSE, applications |-> <<App("billing", 2, "green"), App("orders", 1, "green")>>],
      [error |-> FALSE, applications |-> <<App("orders", 1, "green"), App("billing", 2, Missing)>>] }

RECURSIVE SelectNotGrey(_)
SelectNotGrey(apps) ==
    IF apps = <<>> THEN <<>>
    ELSE LET rest == SelectNotGrey(Tail(apps))
         IN  IF Head(apps).health_status # "grey"
             THEN <<[name |-> Head(apps).name, id |-> Head(apps).id]>> \o rest
             ELSE rest

\* _fetch_newrelic_applications_details: response.get("applications", []) filtered by
\* app["health_status"] != "grey"; the subscript raises KeyError on an application
\* that has no health_status.
FetchApplications(response) ==
    LET apps == IF response.error THEN <<>> ELSE response.applications
    IN  IF \E i \in 1..Len(apps) : apps[i].health_status = Missing
        THEN [raised |-> TRUE, list |-> <<>>]
        ELSE [raised |-> FALSE, list |-> SelectNotGrey(apps)]

\* "application_name in self._application_id_cache"
CacheHitNever(c, n) == FALSE
CacheHit(c, n) == n \in DOMAIN c

\* "self._application_id_cache[application_name] = app_id"
CachePutNothing(c, n, v) == c
CachePut(c, n, v) ==
    [m \in DOMAIN c \cup {n} |-> IF m = n THEN v ELSE c[m]]

\* "app_id = response.choices[0].message.content": the text as it came.
AppIdOrDefault(content) == IF content = "" THEN "1" ELSE content
AppIdOf(content) == content

\* Whether the awaited acompletion call ends the invocation with an exception: there is
\* no try around it, and no test of the content.
OutcomeRaisesNever(out) == FALSE
OutcomeRaises(out) == out.kind = "raise"

EmptyCache == [m \in {} |-> ""]

ResolverInit ==
    /\ cache = EmptyCache
    /\ roster = <<>>
    /\ pc = [p \in Invocations |-> "idle"]
    /\ arg = [p \in Invocations |-> None]
    /\ ret = [p \in Invocations |-> None]
    /\ resp = [p \in Invocations |-> NoOutcome]
    /\ calls = [p \in Invocations |-> 0]
    /\ started = 0
    /\ genCalls = [n \in Names |-> 0]
    /\ priorOk = [p \in Invocations |-> FALSE]
    /\ firstRet = EmptyCache

\* The record of what the first invocation of each name to return has returned.
NoteReturn(n, v) ==
    firstRet' = IF n \in DOMAIN firstRet THEN firstRet
                ELSE [m \in DOMAIN firstRet \cup {n} |-> IF m = n THEN v ELSE firstRet[m]]

\* initialize_newrelic: the roster becomes what _fetch_newrelic_applications_details
\* returns; when that raises, the assignment is not reached.
InitializeNewrelic(response) ==
    /\ roster' = IF FetchApplications(response).raised THEN roster
                 ELSE FetchApplications(response).list
    /\ UNCHANGED <<cache, pc, arg, ret, resp, calls, started, genCalls, priorOk, firstRet>>

\* find_newrelic_application_id up to its await: the cache check, and on a miss the
\* acompletion call, at which the invocation is suspended.
FindStart(p, n) ==
    /\ p = started + 1
    /\ p \in Invocations
    /\ pc[p] = "idle"
    /\ started' = p
    /\ arg' = [arg EXCEPT ![p] = n]
    /\ priorOk' = [priorOk EXCEPT ![p] = n \in DOMAIN firstRet]
    /\ IF CacheHit(cache, n)
       THEN /\ ret' = [ret EXCEPT ![p] = cache[n]]
            /\ pc' = [pc EXCEPT ![p] = "returned"]
            /\ NoteReturn(n, cache[n])
            /\ UNCHANGED <<calls, genCalls>>
       ELSE /\ pc' = [pc EXCEPT ![p] = "awaiting"]
            /\ calls' = [calls EXCEPT ![p] = @ + 1]
            /\ genCalls' = [genCalls EXCEPT ![n] = @ + 1]
            /\ UNCHANGED <<ret, firstRet>>
    /\ UNCHANGED <<cache, roster, resp>>

\* find_newrelic_application_id from its await on: the call raised, or it answered and
\* the answer is cached and returned.
FindResume(p, out) ==
    /\ pc[p] = "awaiting"
    /\ resp' = [resp EXCEPT ![p] = out]
    /\ IF OutcomeRaises(out)
       THEN /\ pc' = [pc EXCEPT ![p] = "raised"]
            /\ UNCHANGED <<cache, ret, firstRet>>
       ELSE /\ cache' = CachePut(cache, arg[p], AppIdOf(out.content))
            /\ ret' = [ret EXCEPT ![p] = AppIdOf(out.content)]
            /\ pc' = [pc EXCEPT ![p] = "returned"]
            /\ NoteReturn(arg[p], AppIdOf(out.content))
    /\ UNCHANGED <<roster, arg, calls, started, genCalls, priorOk>>

(***************************************************************************)
(* NewRelicClient.get_app_metric_data.  The fold over metrics, timeslices  *)
(* and values is taken one sample at a time; formatted_metrics, a dict of  *)
(* dicts, is a function on the (metric name, value name) pairs it holds.   *)
(***************************************************************************)
MetricNames == {"HttpDispatcher"}
\* The metric_names a caller may pass: the names of the module's list, any of them.
ApmMetricNames == {"HttpDispatcher", "Apdex"}
RequestedNames == SUBSET ApmMetricNames
\* A call that ended in an exception.
Raised == [kind |-> "raised"]
ValueNames == {"average_response_time", "call_count"}
Pairs == MetricNames \X ValueNames
\* A value: a number (raw in thousandths, rounded in hundredths), something float()
\* refuses, which is kept as it came, or Python's None.
Number(x) == [kind |-> "number", v |-> x]
NotANumber == [kind |-> "raw", v |-> 0]
NoValue == [kind |-> "none", v |-> 0]
SampleNumbers == {500, 1004, 1006, 2000}
SampleValues == {Number(x) : x \in SampleNumbers} \cup {NotANumber}
IsNumber(val) == val.kind = "number"

TopValuesKept == 3
NoData == "N/A (No data)"

\* top_values.append(...); top_values.sort(key=value, reverse=True); top_values[:3]
TopValuesTruncateFirst(top, entry) ==
    LET kept == SubSeq(Append(top, entry), 1, Min(TopValuesKept, Len(top) + 1))
    IN  SortedDescBy(kept, [i \in 1..Len(kept) |-> kept[i].value])
TopValuesInsert(top, entry) ==
    LET appended == Append(top, entry)
        sorted == SortedDescBy(appended, [i \in 1..Len(appended) |-> appended[i].value])
    IN  SubSeq(sorted, 1, Min(TopValuesKept, Len(sorted)))

NewAccumulator == [current_value |-> NoValue, top_values |-> <<>>, sum |-> 0, count |-> 0]

\* One pass of the innermost loop body on the accumulator of the sample's pair.
FoldValueCountingAll(acc, value, timestamp) ==
    IF IsNumber(value)
    THEN [current_value |-> Number(Round2(value.v)),
          top_values |-> TopValuesInsert(acc.top_values,
                                         [value |-> Round2(value.v), timestamp |-> timestamp]),
          sum |-> acc.sum + value.v,
          count |-> acc.count + 1]
    ELSE [acc EXCEPT !.current_value = value, !.count = @ + 1]
FoldValue(acc, value, timestamp) ==
    IF IsNumber(value)
    THEN [current_value |-> Number(Round2(value.v)),
          top_values |-> TopValuesInsert(acc.top_values,
                                         [value |-> Round2(value.v), timestamp |-> timestamp]),
          sum |-> acc.sum + value.v,
          count |-> acc.count + 1]
    ELSE [acc EXCEPT !.current_value = value]

\* The closing loop: avg_value from sum and count, which are then deleted.
Finalize(acc) ==
    [current_value |-> acc.current_value,
     top_values |-> acc.top_values,
     avg_value |-> IF acc.count > 0 THEN Number(RoundDiv(acc.sum, 10 * acc.count))
                   ELSE NoValue]

\* "for name in metric_names: formatted_metrics[name] = 'N/A (No data)'"
NoDataOfAvailable(names) == [m \in ApmMetricNames |-> NoData]
NoDataOfRequested(names) == [m \in names |-> NoData]

MetricInit ==
    /\ mNames = {}
    /\ mIn = "none"
    /\ mPc = "idle"
    /\ formatted = [x \in {} |-> NewAccumulator]
    /\ folded = [x \in {} |-> <<>>]
    /\ mCount = 0
    /\ mOut = [kind |-> "none"]

\* The request and the tests before the fold.  "metric_names or
\* self.apm_metrics_available": the class has no such attribute, an empty
\* metric_names raises AttributeError before the request.  An {error} object or an
\* empty result returns {error}; a result with no metric data maps every requested
\* name to the no-data marker; otherwise the fold starts.
MetricRequest(names, kind) ==
    /\ mPc = "idle"
    /\ mNames' = names
    /\ IF names = {}
       THEN /\ mOut' = Raised
            /\ mPc' = "done"
            /\ UNCHANGED mIn
       ELSE /\ mIn' = kind
            /\ CASE kind = "error" ->
                     /\ mOut' = [kind |-> "error", error |-> "Failed to fetch APM metrics"]
                     /\ mPc' = "done"
                [] kind = "nodata" ->
                     /\ mOut' = [kind |-> "nodata", metrics |-> NoDataOfRequested(names)]
                     /\ mPc' = "done"
                [] OTHER ->
                     /\ mPc' = "fold"
                     /\ mOut' = mOut
    /\ UNCHANGED <<formatted, folded, mCount>>

\* One (value_name, value) of one timeslice of one metric, the timeslice's "from"
\* being the sample's number.
FoldSample(pair, value) ==
    /\ mPc = "fold"
    /\ mCount < MaxSamples
    /\ mCount' = mCount + 1
    /\ LET acc == IF pair \in DOMAIN formatted THEN formatted[pair] ELSE NewAccumulator
           old == IF pair \in DOMAIN folded THEN folded[pair] ELSE <<>>
       IN  /\ formatted' = [x \in DOMAIN formatted \cup {pair} |->
                               IF x = pair THEN FoldValue(acc, value, mCount + 1)
                               ELSE formatted[x]]
           /\ folded' = [x \in DOMAIN folded \cup {pair} |->
                            IF x = pair THEN Append(old, value) ELSE folded[x]]
    /\ UNCHANGED <<mNames, mIn, mPc, mOut>>

\* The end of the fold: the closing loop and the return.
MetricFinish ==
    /\ mPc = "fold"
    /\ mOut' = [kind |-> "series",
                metrics |-> [x \in DOMAIN formatted |-> Finalize(formatted[x])]]
    /\ mPc' = "done"
    /\ UNCHANGED <<mNames, mIn, formatted, folded, mCount>>

\* The fold goes over the metrics of the response and does not read metric_names
\* again: for a response with data the list of the tool (server.py) stands for all.
NextMetric ==
    \/ \E names \in RequestedNames, kind \in {"error", "nodata"} :
          MetricRequest(names, kind) /\ UNCHANGED notMetric
    \/ MetricRequest(MetricNames, "data") /\ UNCHANGED notMetric
    \/ \E pair \in Pairs, value \in SampleValues :
          FoldSample(pair, value) /\ UNCHANGED notMetric
    \/ MetricFinish /\ UNCHANGED notMetric

(***************************************************************************)
(* NewRelicClient.get_top_database_operations.                             *)
(***************************************************************************)
\* A facet of the Insights result: its name (a list; <<>> when the facet has none),
\* the length of its results list, and the three values the results carry.  A name
\* component the API left null is "".
Facet(name, nres, total, avg, thr) ==
    [name |-> name, nres |-> nres, total |-> total, avg |-> avg, thr |-> thr]
DbFacets ==
    { Facet(<<"MySQL", "users", "select">>, 3, 1000000, 7996, 5000),
      Facet(<<"MySQL", "users", "update">>, 3, 1000000, 8004, 5000),
      Facet(<<"Redis", "", "get">>, 3, 250004, 8000, 5000),
      Facet(<<"MySQL", "orders", "insert">>, 3, 1000000, 12000, 5000),
      Facet(<<"Postgres", "carts", "select">>, 3, 1000000, 8006, 1006),
      Facet(<<"MySQL", "orders">>, 3, 1000000, 12000, 5000),
      Facet(<<"MySQL", "orders", "delete">>, 2, 1000000, 12000, 5000),
      Facet(<<>>, 3, 1000000, 12000, 5000) }

SeqsUpTo(S, n) == UNION {[1..k -> S] : k \in 0..n}

DbResults ==
    {[kind |-> "error", facets |-> <<>>], [kind |-> "empty", facets |-> <<>>]}
    \cup {[kind |-> "facets", facets |-> fs] : fs \in SeqsUpTo(DbFacets, MaxFacets)}

QueryLatencyThreshold == 8000

\* "query_latency = float(avg_time) > 8.0"
QueryLatencyOfRounded(avg) == Round2(avg) * 10 > QueryLatencyThreshold
QueryLatency(avg) == avg > QueryLatencyThreshold

\* "x or 'unknown'"
OrAsItCame(x) == x
OrUnknown(x) == IF x = "" THEN "unknown" ELSE x

\* The facet passes "name_fields and len(name_fields) == 3" and its results list
\* has the three entries the body subscripts (a shorter list raises IndexError,
\* which the except clause logs before it continues).
DbAccepted(f) == Len(f.name) = 3 /\ f.nres >= 3

\* The summary appended for the facet at position i of the result.
DbSummary(f, i) ==
    [datastoreType |-> OrUnknown(f.name[1]),
     table |-> OrUnknown(f.name[2]),
     operation |-> OrUnknown(f.name[3]),
     total_time_per_minute |-> Round2(f.total),
     avg_query_time_ms |-> Round2(f.avg),
     throughput_ops_per_min |-> Round2(f.thr),
     query_latency |-> QueryLatency(f.avg),
     facet |-> i]

\* The loop over result.get("facets", []): the summaries of the first n facets.
RECURSIVE DbCollect(_, _)
DbCollect(facets, n) ==
    IF n = 0 THEN <<>>
    ELSE IF DbAccepted(facets[n])
         THEN Append(DbCollect(facets, n - 1), DbSummary(facets[n], n))
         ELSE DbCollect(facets, n - 1)

\* get_top_database_operations on the result _make_insights_request handed back.
GetTopDatabaseOperations(result) ==
    IF result.kind \in {"error", "empty"}
    THEN [kind |-> "error", database_operations |-> <<>>]
    ELSE LET ops == DbCollect(result.facets, Len(result.facets))
         IN  [kind |-> "ops",
              database_operations |->
                  SortedDescBy(ops, [i \in 1..Len(ops) |-> ops[i].avg_query_time_ms])]

\* One call, on whatever result the request produced.
DbCall(result) ==
    /\ dbIn.kind = "none"
    /\ dbIn' = result
    /\ dbOut' = GetTopDatabaseOperations(result)
    /\ UNCHANGED dbTool

\* The dict get_top_database_operations returns on success, as a Python value: its
\* keys and the list under its one key.
OperationsDict(ops) ==
    [type |-> "dict", keys |-> {"database_operations"}, database_operations |-> ops]
\* len() of a dict: the number of its keys.
DictLen(d) == Cardinality(d.keys)

\* The tool get_application_top_database_operations_details (server.py) on what
\* get_top_database_operations returned: the error, or the returned dict itself
\* under "database_operations" and its len() as "count".
DbDetailsResult(out) ==
    IF out.kind = "error"
    THEN [kind |-> "error", error |-> "Failed to fetch top database operations"]
    ELSE [kind |-> "result",
          database_operations |-> OperationsDict(out.database_operations),
          count |-> DictLen(OperationsDict(out.database_operations))]

\* The rest of the tool, once get_top_database_operations has returned.
DbDetails ==
    /\ dbOut.kind # "none"
    /\ dbTool.kind = "none"
    /\ dbTool' = DbDetailsResult(dbOut)
    /\ UNCHANGED <<dbIn, dbOut>>

NextDb ==
    \/ \E result \in DbResults : DbCall(result) /\ UNCHANGED notDb
    \/ DbDetails /\ UNCHANGED notDb

(***************************************************************************)
(* get_transaction_breakdown_segments (server.py), from its first query    *)
(* on: the application id it awaits first comes from                       *)
(* find_newrelic_application_id and only enters the text of the queries.   *)
(***************************************************************************)
\* The answer to the transaction-total query: an {error} object, an empty object, or
\* a body with or without a results list, whose second entry holds the count.
First(kind, hasResults, nres, count) ==
    [kind |-> kind, hasResults |-> hasResults, nres |-> nres, count |-> count]
FirstResults ==
    { First("error", FALSE, 0, 0),
      First("empty", FALSE, 0, 0),
      First("ok", FALSE, 0, 0),
      First("ok", TRUE, 0, 0),
      First("ok", TRUE, 1, 0),
      First("ok", TRUE, 2, 0),
      First("ok", TRUE, 2, 2),
      First("ok", TRUE, 2, 3) }

\* A facet of the segment query: its name split at "/" (<<>> when it has none), the
\* length of its results list, and the average, count and sum the results carry.
Segment(name, nres, avg, count, sum) ==
    [name |-> name, nres |-> nres, avg |-> avg, count |-> count, sum |-> sum]
BdFacets ==
    { Segment(<<"Datastore", "MySQL", "users", "select">>, 3, 2500, 4, 80000),
      Segment(<<"External", "api.example.com", "all">>, 3, 1250, 3, 20000),
      Segment(<<"Function", "handler">>, 3, 6, 1, 6),
      Segment(<<"Function", "noop">>, 3, 0, 0, 0),
      Segment(<<"Python", "render">>, 3, 1004, 5, 1004),
      Segment(<<>>, 3, 2500, 4, 80000),
      Segment(<<"External", "cdn", "all">>, 0, 1250, 3, 20000),
      Segment(<<"Datastore", "Redis", "get">>, 2, 2500, 4, 80000) }

SecondResults ==
    {[kind |-> "error", facets |-> <<>>], [kind |-> "empty", facets |-> <<>>]}
    \cup {[kind |-> "facets", facets |-> fs] : fs \in SeqsUpTo(BdFacets, MaxFacets)}
NotIssued == [kind |-> "not issued", facets |-> <<>>]

\* The first result gets past the error test, the "if not results" test and the
\* subscripts results[0] and results[1].
FirstIsErrorNever(first) == FALSE
FirstIsError(first) == first.kind \in {"error", "empty"}
\* transaction_total_result.get("results", [{}]): one empty entry when the key is absent.
FirstResultsLen(first) == IF first.hasResults THEN first.nres ELSE 1
FirstNoData(first) == ~FirstIsError(first) /\ FirstResultsLen(first) = 0
FirstRaises(first) == ~FirstIsError(first) /\ FirstResultsLen(first) = 1
FirstProceeds(first) == ~FirstIsError(first) /\ FirstResultsLen(first) >= 2

\* "if total_txn_count == 0: total_txn_count = 1"
TotalTxnCountPlusOne(first) == first.count + 1
TotalTxnCount(first) == IF first.count = 0 THEN 1 ELSE first.count

\* "if not results or not segment_name: continue"
BdSkipped(f) == f.nres = 0 \/ f.name = <<>>
\* results[1] or results[2] of a list that short raises IndexError, out of the call.
BdRaises(f) == ~BdSkipped(f) /\ f.nres < 3
BdAccepted(f) == ~BdSkipped(f) /\ f.nres >= 3

\* The name-prefix rule.
Category(name) ==
    IF name[1] = "Datastore" THEN "Database"
    ELSE IF name[1] = "External" THEN "External"
    ELSE "Function"

\* The segment appended for the facet at position i, its percentage still 0.
BdSegment(f, i, total_txn_count) ==
    [category |-> Category(f.name),
     segment |-> f.name,
     avg_time_ms |-> Round2(f.avg),
     avg_calls_txn |-> RoundDiv(f.count * 100, total_txn_count),
     total_time_ms |-> Round2(f.sum),
     percentage |-> 0,
     facet |-> i]

\* The first loop over the first n facets: the segments appended ...
RECURSIVE BdCollect(_, _, _)
BdCollect(facets, n, total_txn_count) ==
    IF n = 0 THEN <<>>
    ELSE IF BdAccepted(facets[n])
         THEN Append(BdCollect(facets, n - 1, total_txn_count),
                     BdSegment(facets[n], n, total_txn_count))
         ELSE BdCollect(facets, n - 1, total_txn_count)

\* ... and total_time, the sum of segment_total_time, not rounded.
RECURSIVE BdTotalTimeOfAll(_, _)
BdTotalTimeOfAll(facets, n) ==
    IF n = 0 THEN 0 ELSE BdTotalTimeOfAll(facets, n - 1) + facets[n].sum
RECURSIVE BdTotalTime(_, _)
BdTotalTime(facets, n) ==
    IF n = 0 THEN 0
    ELSE BdTotalTime(facets, n - 1) + (IF BdAccepted(facets[n]) THEN facets[n].sum ELSE 0)

\* round((segment["total_time_ms"] / total_time) * 100, 2), in hundredths of a percent:
\* the rounded total_time_ms (hundredths) over the unrounded total_time (thousandths).
Percentage(total_time_ms, total_time) ==
    IF total_time > 0 THEN RoundDiv(total_time_ms * 100000, total_time) ELSE 0

\* The second loop and the sort.
BdSegments(facets, total_txn_count) ==
    LET segs == BdCollect(facets, Len(facets), total_txn_count)
        total_time == BdTotalTime(facets, Len(facets))
        withPct == [i \in 1..Len(segs) |->
                       [segs[i] EXCEPT !.percentage =
                           Percentage(segs[i].total_time_ms, total_time)]]
    IN  SortedDescBy(withPct, [i \in 1..Len(withPct) |-> withPct[i].percentage])

\* get_transaction_breakdown_segments on the results of its two queries.
BreakdownResult(first, second) ==
    IF FirstIsError(first) THEN [kind |-> "error", error |-> "Failed to fetch transaction count"]
    ELSE IF FirstNoData(first) THEN [kind |-> "error", error |-> "No transaction data found"]
    ELSE IF FirstRaises(first) THEN Raised
    ELSE IF second.kind \in {"error", "empty"}
         THEN [kind |-> "error", error |-> "Failed to fetch transaction breakdown"]
    ELSE IF \E i \in 1..Len(second.facets) : BdRaises(second.facets[i]) THEN Raised
    ELSE [kind |-> "breakdown",
          total_time_ms |-> Round2(BdTotalTime(second.facets, Len(second.facets))),
          total_transaction_count |-> TotalTxnCount(first),
          segments |-> BdSegments(second.facets, TotalTxnCount(first))]

\* The second query is issued only when the first result let the call go on.
SecondResultsAfter(first) == IF FirstProceeds(first) THEN SecondResults ELSE {NotIssued}

\* One call, on the results its queries produced.
BreakdownCall(first, second) ==
    /\ bdIn.kind = "none"
    /\ bdIn' = [kind |-> "results", first |-> first, second |-> second]
    /\ bdOut' = BreakdownResult(first, second)

NextBreakdown ==
    \E first \in FirstResults : \E second \in SecondResultsAfter(first) :
        BreakdownCall(first, second) /\ UNCHANGED notBd

\* The same call taken query by query.  The first query (server.py:532) is issued
\* whatever the arguments; what it hands back decides whether the call returns, raises
\* or goes on to the second query.
BdFirstQuery(first) ==
    /\ bdPc = "idle"
    /\ bdQueries' = Append(bdQueries, "transaction_total_query")
    /\ bdIn' = [kind |-> "results", first |-> first, second |-> NotIssued]
    /\ IF FirstProceeds(first)
       THEN /\ bdPc' = "second"
            /\ UNCHANGED bdOut
       ELSE /\ bdPc' = "done"
            /\ bdOut' = BreakdownResult(first, NotIssued)

\* The second query (server.py:570) and the rest of the call.
BdSecondQuery(second) ==
    /\ bdPc = "second"
    /\ bdQueries' = Append(bdQueries, "transaction_breakdown_query")
    /\ bdIn' = [bdIn EXCEPT !.second = second]
    /\ bdOut' = BreakdownResult(bdIn.first, second)
    /\ bdPc' = "done"

NextBdSteps ==
    \/ \E first \in FirstResults : BdFirstQuery(first) /\ UNCHANGED notBdSteps
    \/ \E second \in SecondResults : BdSecondQuery(second) /\ UNCHANGED notBdSteps

(***************************************************************************)
(* NewRelicClient.get_slow_transactions.                                   *)
(***************************************************************************)
\* An entry of a facet's results list whose value key is absent: .get(key, 0) then
\* yields 0.  (NotANumber stands for a value float() and int() refuse.)
Absent == [kind |-> "absent", v |-> 0]

\* A facet of the Insights result: whether it has the keys "name" and "results", and
\* the values of its results list: sum, average, min, max, count, error rate and
\* throughput, in the order of the SELECT clause.
SlowFacet(hasName, name, hasResults, results) ==
    [hasName |-> hasName, name |-> name, hasResults |-> hasResults, results |-> results]
SlowFacets ==
    { SlowFacet(TRUE, "WebTransaction/checkout", TRUE,
                <<Number(1000000), Number(500500), Number(100000), Number(1000000),
                  Number(10000), Number(5000), Number(2004)>>),
      SlowFacet(TRUE, "WebTransaction/login", TRUE,
                <<Number(250004), Number(1500), Number(1000), Number(2500),
                  Number(3000), Number(0), Number(1006)>>),
      SlowFacet(FALSE, "", TRUE,
                <<Number(1000000), Number(500500), Number(100000), Number(1000000),
                  Number(10000), Number(5000), Number(2004)>>),
      SlowFacet(TRUE, "WebTransaction/search", FALSE, <<>>),
      SlowFacet(TRUE, "WebTransaction/cart", TRUE,
                <<Number(1000000), Number(500500), Number(100000), Number(1000000),
                  Number(10000), Number(5000)>>),
      SlowFacet(TRUE, "WebTransaction/pay", TRUE,
                <<Number(1000000), NotANumber, Number(100000), Number(1000000),
                  Number(10000), Number(5000), Number(2004)>>),
      SlowFacet(TRUE, "WebTransaction/home", TRUE,
                <<Number(1000000), Absent, Number(100000), Number(1000000),
                  Number(10000), Number(5000), Number(2004)>>) }

\* What _make_insights_request may hand back: an {error} object, an empty object, a
\* body without "facets", or a body with a facet list.
SlowResults ==
    { [kind |-> "error", facets |-> <<>>], [kind |-> "empty", facets |-> <<>>],
      [kind |-> "nofacets", facets |-> <<>>] }
    \cup {[kind |-> "facets", facets |-> fs] : fs \in SeqsUpTo(SlowFacets, MaxFacets)}

SlowFieldCount == 7

\* results[k].get(key, 0), for k the position in the SELECT clause.
GetOr0(entry) == IF entry.kind = "absent" THEN Number(0) ELSE entry

\* The body of the try raises: facet["name"] or facet["results"] has no such key,
\* a subscript results[k] is out of range, or float() / int() refuses a value.
SlowRaises(f) ==
    \/ ~f.hasName
    \/ ~f.hasResults
    \/ \E k \in 1..SlowFieldCount :
          \/ k > Len(f.results)
          \/ ~IsNumber(GetOr0(f.results[k]))

\* format_ms: int(round(value)), the number before " ms".
FormatMs(milli) == RoundDiv(milli, 1000)
\* int(value)
IntOf(milli) == milli \div 1000

\* transaction_data of the facet at position i of the result.
SlowSummary(f, i) ==
    [name |-> f.name,
     total_duration |-> Round2(GetOr0(f.results[1]).v),
     avg_duration |-> FormatMs(GetOr0(f.results[2]).v),
     min_duration |-> FormatMs(GetOr0(f.results[3]).v),
     max_duration |-> FormatMs(GetOr0(f.results[4]).v),
     call_count |-> IntOf(GetOr0(f.results[5]).v),
     error_rate |-> Round2(GetOr0(f.results[6]).v),
     throughput |-> Round2(GetOr0(f.results[7]).v),
     facet |-> i]

\* The same loop with the try around it instead of inside it.
RECURSIVE SlowCollectUntilRaise(_, _)
SlowCollectUntilRaise(facets, n) ==
    IF n = 0 THEN <<>>
    ELSE IF \E i \in 1..n : SlowRaises(facets[i])
         THEN SlowCollectUntilRaise(facets, n - 1)
         ELSE Append(SlowCollectUntilRaise(facets, n - 1), SlowSummary(facets[n], n))
\* The loop over result["facets"]: the try appends the summary, the except clause
\* logs and goes on with the next facet.
RECURSIVE SlowCollect(_, _)
SlowCollect(facets, n) ==
    IF n = 0 THEN <<>>
    ELSE IF SlowRaises(facets[n])
         THEN SlowCollect(facets, n - 1)
         ELSE Append(SlowCollect(facets, n - 1), SlowSummary(facets[n], n))

\* get_slow_transactions on the result _make_insights_request handed back.
GetSlowTransactions(result) ==
    IF result.kind \in {"error", "empty"}
    THEN [kind |-> "error", error |-> "Failed to fetch slow transactions", transactions |-> <<>>]
    ELSE [kind |-> "transactions", error |-> "",
          transactions |-> SlowCollect(result.facets, Len(result.facets))]

\* One call, on whatever result the request produced.
SlowCall(result) ==
    /\ stIn.kind = "none"
    /\ stIn' = result
    /\ stOut' = GetSlowTransactions(result)
    /\ UNCHANGED sdOut

(***************************************************************************)
(* The tool get_application_slow_transactions_details (server.py), from    *)
(* the result of get_slow_transactions on.                                 *)
(***************************************************************************)
\* What the call expression get_transaction_breakdown_segments(app_id, txn_name, ...)
\* yields: the function is async and the call is not awaited, so it is a coroutine
\* object, whatever the transaction.
Coroutine == [kind |-> "coroutine"]
CallBreakdown(txn) == Coroutine

\* '"error" in breakdown': a coroutine object is no container, the test raises
\* TypeError; there is no try around it.
MembershipRaises(breakdown) == breakdown.kind = "coroutine"

\* The entry appended to combined for a transaction.
Combined(txn) ==
    [transaction |-> [name |-> txn.name,
                      avg_duration |-> txn.avg_duration,
                      min_duration |-> txn.min_duration,
                      max_duration |-> txn.max_duration,
                      call_count |-> txn.call_count,
                      error_rate |-> txn.error_rate,
                      throughput |-> txn.throughput],
     facet |-> txn.facet]

\* The tool on what get_slow_transactions returned.
SlowDetailsResult(transactions_result) ==
    IF transactions_result.kind = "error"
    THEN [kind |-> "error", error |-> transactions_result.error]
    ELSE LET transactions == transactions_result.transactions
         IN  IF \E i \in 1..Len(transactions) : MembershipRaises(CallBreakdown(transactions[i]))
             THEN Raised
             ELSE [kind |-> "result",
                   transactions |-> [i \in 1..Len(transactions) |-> Combined(transactions[i])],
                   count |-> Len(transactions)]

\* The rest of the tool, once get_slow_transactions has returned.
SlowDetails ==
    /\ stOut.kind # "none"
    /\ sdOut.kind = "none"
    /\ sdOut' = SlowDetailsResult(stOut)
    /\ UNCHANGED <<stIn, stOut>>

NextSlow ==
    \/ \E result \in SlowResults : SlowCall(result) /\ UNCHANGED notSlow
    \/ SlowDetails /\ UNCHANGED notSlow

(***************************************************************************)
(* NewRelicClient.get_transaction_details.                                 *)
(***************************************************************************)
\* The first facet of the Insights result: its name, the length of its results list
\* and the average and the rate the results carry (thousandths).
TdFacet(name, nres, average, rate) ==
    [name |-> name, nres |-> nres, average |-> average, rate |-> rate]
\* What _make_insights_request may hand back: an {error} object, an empty object, a
\* body without "facets", and bodies whose facet list is empty or starts with a facet
\* of zero, one or two results.
TdResults ==
    { [kind |-> "error", facets |-> <<>>],
      [kind |-> "empty", facets |-> <<>>],
      [kind |-> "nofacets", facets |-> <<>>],
      [kind |-> "facets", facets |-> <<>>],
      [kind |-> "facets", facets |-> <<TdFacet("WebTransaction/checkout", 0, 0, 0)>>],
      [kind |-> "facets", facets |-> <<TdFacet("WebTransaction/checkout", 1, 120500, 0)>>],
      [kind |-> "facets", facets |-> <<TdFacet("WebTransaction/checkout", 2, 120500, 42000)>>],
      [kind |-> "facets", facets |-> <<TdFacet("WebTransaction/checkout", 2, 120500, 42000),
                                       TdFacet("WebTransaction/login", 2, 80000, 7000)>>] }

\* transaction_result.get("facets", []): there is no test of an "error" key before it.
TdFacetsOf(result) == IF result.kind = "facets" THEN result.facets ELSE <<>>

\* get_transaction_details on the result _make_insights_request handed back: the
\* subscript [0] of an empty facet list, and the subscripts [0] and [1] of a results
\* list that short, raise IndexError.
GetTransactionDetails(result) ==
    LET facets == TdFacetsOf(result)
    IN  IF Len(facets) = 0 THEN Raised
        ELSE IF facets[1].nres < 2 THEN Raised
        ELSE [kind |-> "details",
              transaction_name |-> facets[1].name,
              response_time |-> facets[1].average,
              throughput_per_minute |-> facets[1].rate]

\* One call, on whatever result the request produced.
DetailsCall(result) ==
    /\ tdIn.kind = "none"
    /\ tdIn' = result
    /\ tdOut' = GetTransactionDetails(result)

(***************************************************************************)
(* The five shaping operations, each called once on a result of a request  *)
(* that failed or found nothing.                                           *)
(***************************************************************************)
NoFacets == [kind |-> "facets", facets |-> <<>>]
ErrorResult == [kind |-> "error", facets |-> <<>>]
EmptyResult == [kind |-> "empty", facets |-> <<>>]
FailedResults == {ErrorResult, EmptyResult, NoFacets}

NextTransport ==
    \/ \E names \in RequestedNames \ {{}}, kind \in {"error", "nodata"} :
          MetricRequest(names, kind) /\ UNCHANGED notMetric
    \/ \E result \in FailedResults : SlowCall(result) /\ UNCHANGED notSlow
    \/ \E result \in FailedResults : DbCall(result) /\ UNCHANGED notDb
    \/ \E result \in TdResults : DetailsCall(result) /\ UNCHANGED notDetails
    \/ \E first \in FirstResults : \E second \in SecondResultsAfter(first) \cap (FailedResults \cup {NotIssued}) :
          BreakdownCall(first, second) /\ UNCHANGED notBd

(***************************************************************************)
(* The access layer: NewRelicClient._make_request and                      *)
(* _make_insights_request.                                                 *)
(***************************************************************************)
\* The api_key the client was constructed with: a key, the empty string, or None.
ApiKeys == {"NRAK-key", "", None}
\* Decoded JSON bodies, by what they are.
Bodies == {"{applications: [...]}", "{}", "[]"}

\* The exceptions the body of the try may end in, by class: raise_for_status
\* raises HTTPError, which carries the response; requests.request / requests.get
\* raise ConnectionError or Timeout; response.json() raises JSONDecodeError (a
\* RequestException) or, in older releases of requests, ValueError; anything else
\* (an unserialisable json=data, say) is a TypeError.
RequestExceptionClasses == {"HTTPError", "ConnectionError", "Timeout", "JSONDecodeError"}
ExceptionClasses == RequestExceptionClasses \cup {"ValueError", "TypeError"}

\* What the network call and the decoding of its answer come to.
NetOutcomes ==
    {[kind |-> "body", body |-> b, class |-> ""] : b \in Bodies}
    \cup {[kind |-> "raise", body |-> "", class |-> c] : c \in ExceptionClasses}
NetNotCalled == [kind |-> "not called", body |-> "", class |-> ""]

\* "except requests.exceptions.RequestException as e"
IsRequestException(class) == class \in RequestExceptionClasses
\* "except Exception as e"
IsInstanceOfValueError(class) == class = "ValueError"
IsInstanceOfException(class) == class \in ExceptionClasses

\* "if e.response is not None"
HasResponse(class) == class = "HTTPError"

\* The try of either function on the outcome of its network call; api is the name
\* the messages carry.
TryRequest(outcome, api) ==
    IF outcome.kind = "body" THEN [kind |-> "json", body |-> outcome.body]
    ELSE IF IsRequestException(outcome.class)
         THEN [kind |-> "error",
               error |-> [text |-> api, about |-> outcome.class,
                          response |-> HasResponse(outcome.class)]]
    ELSE IF IsInstanceOfException(outcome.class)
         THEN [kind |-> "error",
               error |-> [text |-> "Unexpected error", about |-> outcome.class,
                          response |-> FALSE]]
    ELSE Raised

\* "if not self.headers.get('X-Api-Key')"
KeyMissing(key) == key \in {"", None}

KeyNotConfigured ==
    [kind |-> "error",
     error |-> [text |-> "New Relic API key not configured", about |-> "", response |-> FALSE]]

AccessInit ==
    /\ rqIn = [kind |-> "none"] /\ rqOut = [kind |-> "none"]
    /\ iqIn = [kind |-> "none"] /\ iqOut = [kind |-> "none"]
    /\ netCalls = [f \in {"_make_request", "_make_insights_request"} |-> 0]

\* _make_request, for a client constructed with the key, on the outcome of its
\* network call (which is not made when the key is missing).
MakeRequest(key, outcome) ==
    /\ rqIn.kind = "none"
    /\ KeyMissing(key) <=> outcome = NetNotCalled
    /\ rqIn' = [kind |-> "request", key |-> key, outcome |-> outcome]
    /\ IF KeyMissing(key)
       THEN /\ rqOut' = KeyNotConfigured
            /\ UNCHANGED netCalls
       ELSE /\ rqOut' = TryRequest(outcome, "New Relic API request error")
            /\ netCalls' = [netCalls EXCEPT !["_make_request"] = @ + 1]
    /\ UNCHANGED <<iqIn, iqOut>>

\* _make_insights_request on the outcome of its network call.
MakeInsightsRequest(outcome) ==
    /\ iqIn.kind = "none"
    /\ iqIn' = [kind |-> "request", outcome |-> outcome]
    /\ iqOut' = TryRequest(outcome, "New Relic Insights API request error")
    /\ netCalls' = [netCalls EXCEPT !["_make_insights_request"] = @ + 1]
    /\ UNCHANGED <<rqIn, rqOut>>

NextAccess ==
    \/ \E key \in ApiKeys, outcome \in NetOutcomes \cup {NetNotCalled} :
          MakeRequest(key, outcome) /\ UNCHANGED notAccess
    \/ \E outcome \in NetOutcomes : MakeInsightsRequest(outcome) /\ UNCHANGED notAccess

(***************************************************************************)
(* Startup: run_server (server.py) and main (cli.py).                      *)
(***************************************************************************)
\* The credentials each entry point requires, and where a run gets each from:
\* run_server takes command-line arguments only, main an argument or else an
\* environment variable.
Required(entry) ==
    IF entry = "run_server"
    THEN {"new_relic_api_key", "nr_insights_api_key", "new_relic_account_id", "model"}
    ELSE {"api_key", "insights_key", "account_id", "openai_api_key"}
Sources(entry) == IF entry = "run_server" THEN {"arg", "none"} ELSE {"arg", "env", "none"}
Configs(entry) == [Required(entry) -> Sources(entry)]

\* "if not all([api_key, insights_key, account_id, openai_api_key])", and the
\* required=True of run_server's arguments.
AllPresent(config) == \A c \in DOMAIN config : config[c] # "none"

NoStatus == 0 - 1
\* parser.parse_args() on a missing required argument: parser.error, SystemExit(2).
ArgparseErrorStatus == 2
\* An exception that leaves the entry point: traceback, status 1.
TracebackStatus == 1
\* "return 1" of main on missing credentials.
MainMissingCredentials == 1
\* "if __name__ == '__main__': main()": the value main returns is dropped, and the
\* interpreter ends with status 0.
ScriptExitStatus(returned) == 0

StartupInit ==
    /\ suEntry = "none"
    /\ suConfig = [c \in {} |-> "none"]
    /\ suPc = "off"
    /\ suStatus = NoStatus
    /\ suRoster = FALSE
    /\ suAccepted = 0

\* run_server: the parser and parse_args, which loads the configuration and refuses
\* a missing required argument; then the client is constructed.
RunServerParse(config) ==
    /\ suPc = "off"
    /\ suEntry' = "run_server"
    /\ suConfig' = config
    /\ IF AllPresent(config)
       THEN suPc' = "validated" /\ suStatus' = suStatus
       ELSE suPc' = "exited" /\ suStatus' = ArgparseErrorStatus
    /\ UNCHANGED <<suRoster, suAccepted>>

\* main: parse_args, load_dotenv and the four "args.x or os.getenv(X)".
CliLoad(config) ==
    /\ suPc = "off"
    /\ suEntry' = "cli"
    /\ suConfig' = config
    /\ suPc' = "loaded"
    /\ UNCHANGED <<suStatus, suRoster, suAccepted>>

\* main: the credential test; on a missing one it prints the list and returns 1,
\* otherwise the server object is constructed.
CliValidate ==
    /\ suPc = "loaded"
    /\ IF AllPresent(suConfig)
       THEN suPc' = "validated" /\ suStatus' = suStatus
       ELSE suPc' = "exited" /\ suStatus' = ScriptExitStatus(MainMissingCredentials)
    /\ UNCHANGED <<suEntry, suConfig, suRoster, suAccepted>>

\* "await nr_client.initialize_newrelic()" and anyio.run(perform_async_initialization):
\* the roster is fetched, or the fetch raises and the exception ends the process.
StartupInitialize(raises) ==
    /\ suPc = "validated"
    /\ IF raises
       THEN suPc' = "exited" /\ suStatus' = TracebackStatus /\ suRoster' = suRoster
       ELSE suPc' = "initialized" /\ suRoster' = TRUE /\ suStatus' = suStatus
    /\ UNCHANGED <<suEntry, suConfig, suAccepted>>

\* run_server: mcp.run(transport="stdio"), called inside the running event loop: it
\* serves, or it raises.
RunServerServe(raises) ==
    /\ suEntry = "run_server"
    /\ suPc = "initialized"
    /\ IF raises
       THEN suPc' = "exited" /\ suStatus' = TracebackStatus
       ELSE suPc' = "serving" /\ suStatus' = suStatus
    /\ UNCHANGED <<suEntry, suConfig, suRoster, suAccepted>>

\* main: server.run_mcp_blocking(), the blocking MCP server.
CliServe ==
    /\ suEntry = "cli"
    /\ suPc = "initialized"
    /\ suPc' = "serving"
    /\ UNCHANGED <<suEntry, suConfig, suStatus, suRoster, suAccepted>>

\* The serving MCP server accepts a tool call.
AcceptToolCall ==
    /\ suPc = "serving"
    /\ suAccepted < MaxInvocations
    /\ suAccepted' = suAccepted + 1
    /\ UNCHANGED <<suEntry, suConfig, suPc, suStatus, suRoster>>

\* The server is shut down: run_server returns, main returns 0.
Shutdown ==
    /\ suPc = "serving"
    /\ suPc' = "exited"
    /\ suStatus' = 0
    /\ UNCHANGED <<suEntry, suConfig, suRoster, suAccepted>>

NextStartup ==
    \/ \E config \in Configs("run_server") : RunServerParse(config) /\ UNCHANGED notStartup
    \/ \E config \in Configs("cli") : CliLoad(config) /\ UNCHANGED notStartup
    \/ CliValidate /\ UNCHANGED notStartup
    \/ \E raises \in BOOLEAN : StartupInitialize(raises) /\ UNCHANGED notStartup
    \/ \E raises \in BOOLEAN : RunServerServe(raises) /\ UNCHANGED notStartup
    \/ CliServe /\ UNCHANGED notStartup
    \/ AcceptToolCall /\ UNCHANGED notStartup
    \/ Shutdown /\ UNCHANGED notStartup

(***************************************************************************)
(* NewRelicClient._fetch_newrelic_applications_details, called once on     *)
(* what GET applications.json handed back.                                 *)
(***************************************************************************)
FetchApps ==
    { App("orders", 1, "green"), App("billing", 2, "grey"), App("carts", 3, Missing),
      App("search", 4, "red"), App("login", 5, "green") }
FetchResponses ==
    Responses \cup {[error |-> FALSE, applications |-> apps] : apps \in SeqsUpTo(FetchApps, MaxApps)}

FetchCall(response) ==
    /\ faIn.kind = "none"
    /\ faIn' = [kind |-> "response", response |-> response]
    /\ faOut' = FetchApplications(response)

NextFetch == \E response \in FetchResponses : FetchCall(response) /\ UNCHANGED notFetch

\* A sequential caller: it dispatches an invocation only when none is suspended.
NoneSuspended == \A q \in Invocations : pc[q] # "awaiting"

(***************************************************************************)
(* The tools of server.py, as far as the resolution of the application id  *)
(* decides them: each awaits find_newrelic_application_id first and goes   *)
(* on to the access layer with the id it gets.                             *)
(***************************************************************************)
Tools ==
    { "get_newrelic_apm_metrics",
      "get_application_slow_transactions_details",
      "get_application_top_database_operations_details",
      "get_transaction_breakdown_segments" }

\* How an exception of the awaited resolution leaves the tool: get_newrelic_apm_metrics
\* has the await inside try ... except Exception and returns the error string; the
\* other tools have no try, the exception propagates to the caller.
ToolFailureUncaught(t) == "exception"
ToolFailure(t) == IF t = "get_newrelic_apm_metrics" THEN "error string" ELSE "exception"

ToolsInit ==
    /\ tool = [p \in Invocations |-> None]
    /\ toolOut = [p \in Invocations |-> None]
    /\ queried = [p \in Invocations |-> FALSE]

\* The tool after the resolution returned: it queries the access layer.
ToolProceeds(p) ==
    /\ toolOut' = [toolOut EXCEPT ![p] = "proceeded"]
    /\ queried' = [queried EXCEPT ![p] = TRUE]

\* A tool invocation up to its first await; on a cache hit nothing suspends it and
\* it goes on at once.
ToolStart(p, t, n) ==
    /\ FindStart(p, n)
    /\ tool' = [tool EXCEPT ![p] = t]
    /\ IF CacheHit(cache, n) THEN ToolProceeds(p) ELSE UNCHANGED <<toolOut, queried>>

\* The invocation from its await on.
ToolResume(p, out) ==
    /\ FindResume(p, out)
    /\ IF OutcomeRaises(out)
       THEN /\ toolOut' = [toolOut EXCEPT ![p] = ToolFailure(tool[p])]
            /\ UNCHANGED queried
       ELSE ToolProceeds(p)
    /\ UNCHANGED tool

\* The generation call answers or raises; which id it answers with does not decide
\* the course of a tool, one answer stands for all.
ToolOutcomes == {out \in Outcomes : out.kind = "raise" \/ out.content = "1"}

NextTools ==
    \/ \E p \in Invocations, t \in Tools, n \in Names : ToolStart(p, t, n) /\ UNCHANGED notTools
    \/ \E p \in Invocations, out \in ToolOutcomes : ToolResume(p, out) /\ UNCHANGED notTools

(***************************************************************************)
(* The roster next to the remote system it is a snapshot of: applications  *)
(* are added to New Relic while the server runs, initialize_newrelic       *)
(* fetches them, and the tools resolve names against the roster.           *)
(***************************************************************************)
\* The applications that come to exist in New Relic, in this order.
RemoteApps ==
    << App("orders", 1, "green"), App("billing", 2, "green"), App("carts", 3, "grey"),
       App("search", 4, "red"), App("login", 5, "green") >>

\* What GET applications.json hands back: {error}, or the applications there are.
RemoteResponse(failed) ==
    IF failed THEN [error |-> TRUE, applications |-> <<>>]
    ELSE [error |-> FALSE, applications |-> remote]

NoPrompt == [kind |-> "none", applications |-> <<>>, remoteAt |-> 0]
\* "{self._applications_available}" in the f-string of the system prompt; remoteAt
\* notes how many applications New Relic had when the prompt was built.
PromptOfRemote(available) ==
    [kind |-> "prompt", applications |-> SelectNotGrey(remote), remoteAt |-> Len(remote)]
SystemPrompt(available) ==
    [kind |-> "prompt", applications |-> available, remoteAt |-> Len(remote)]

RosterInit == remote = <<>> /\ loaded = 0 /\ prompt = NoPrompt

\* An application is created in New Relic: nothing of the server changes.
RemoteAdd ==
    /\ Len(remote) < Min(MaxApps, Len(RemoteApps))
    /\ remote' = Append(remote, RemoteApps[Len(remote) + 1])
    /\ UNCHANGED <<loaded, prompt>>

\* initialize_newrelic against the remote system as it is.
Reinitialize(failed) ==
    /\ InitializeNewrelic(RemoteResponse(failed))
    /\ loaded' = Len(remote)
    /\ UNCHANGED <<remote, prompt>>

\* A tool that returns the failure of its resolution and one that raises it.
RosterTools == {"get_newrelic_apm_metrics", "get_transaction_breakdown_segments"}

\* A tool invocation up to the await of its resolution: on a cache miss the system
\* prompt is built from the roster as it is.
ResolveStart(p, t, n) ==
    /\ p <= MaxResolves
    /\ ToolStart(p, t, n)
    /\ prompt' = IF CacheHit(cache, n) THEN prompt ELSE SystemPrompt(roster)
    /\ UNCHANGED <<remote, loaded>>

NextRoster ==
    \/ RemoteAdd /\ UNCHANGED <<resolverVars, toolVars, notRoster>>
    \/ \E failed \in BOOLEAN : Reinitialize(failed) /\ UNCHANGED <<toolVars, notRoster>>
    \/ \E p \in Invocations, t \in RosterTools, n \in Names :
          ResolveStart(p, t, n) /\ UNCHANGED notRoster
    \/ \E p \in Invocations, out \in ToolOutcomes :
          ToolResume(p, out) /\ UNCHANGED <<rosterVars, notRoster>>

(***************************************************************************)
(* One invocation of get_application_slow_transactions_details, from the   *)
(* resolution of the application id to the return.                         *)
(***************************************************************************)
SlowTool == "get_application_slow_transactions_details"

\* The body of get_transaction_breakdown_segments runs when the coroutine the call
\* yields is awaited; the tool never awaits it.
BodyHasRun(breakdown) == breakdown.kind # "coroutine"
\* The breakdown computations that have run when the loop over the transactions ends.
BreakdownsRun(transactions_result) ==
    IF transactions_result.kind = "error" THEN 0
    ELSE Cardinality({i \in 1..Len(transactions_result.transactions) :
                         BodyHasRun(CallBreakdown(transactions_result.transactions[i]))})

\* The invocation up to the await of find_newrelic_application_id(application_name).
SlowToolStart(n) ==
    /\ ToolStart(1, SlowTool, n)
    /\ sdName' = n
    /\ UNCHANGED <<sdRuns, slowVars>>

\* The resolution answers or raises.
SlowToolResume(out) ==
    /\ tool[1] = SlowTool
    /\ ToolResume(1, out)
    /\ UNCHANGED <<slowToolVars, slowVars>>

\* "transactions_result = nr_client.get_slow_transactions(app_id, ...)"
SlowToolFetch(result) ==
    /\ tool[1] = SlowTool /\ toolOut[1] = "proceeded"
    /\ SlowCall(result)
    /\ UNCHANGED <<resolverVars, toolVars, slowToolVars>>

\* The loop over the transactions and the return.
SlowToolFinish ==
    /\ tool[1] = SlowTool /\ toolOut[1] = "proceeded"
    /\ SlowDetails
    /\ sdRuns' = BreakdownsRun(stOut)
    /\ UNCHANGED <<resolverVars, toolVars, sdName>>

NextSlowTool ==
    \/ \E n \in Names : SlowToolStart(n) /\ UNCHANGED notSlowTool
    \/ \E out \in Outcomes : SlowToolResume(out) /\ UNCHANGED notSlowTool
    \/ \E result \in SlowResults : SlowToolFetch(result) /\ UNCHANGED notSlowTool
    \/ SlowToolFinish /\ UNCHANGED notSlowTool

OtherInit ==
    /\ MetricInit
    /\ dbIn = [kind |-> "none"] /\ dbOut = [kind |-> "none"] /\ dbTool = [kind |-> "none"]
    /\ bdIn = [kind |-> "none"] /\ bdOut = [kind |-> "none"]
    /\ stIn = [kind |-> "none"] /\ stOut = [kind |-> "none"] /\ sdOut = [kind |-> "none"]
    /\ tdIn = [kind |-> "none"] /\ tdOut = [kind |-> "none"]
    /\ AccessInit
    /\ StartupInit
    /\ faIn = [kind |-> "none"] /\ faOut = [kind |-> "none"]
    /\ ToolsInit
    /\ bdPc = "idle" /\ bdQueries = <<>>
    /\ RosterInit
    /\ sdName = None /\ sdRuns = 0

Init == ResolverInit /\ OtherInit

Next ==
    \/ \E p \in Invocations, n \in Names : FindStart(p, n) /\ UNCHANGED notResolver
    \/ \E p \in Invocations, out \in Outcomes : FindResume(p, out) /\ UNCHANGED notResolver
    \/ \E r \in Responses : InitializeNewrelic(r) /\ UNCHANGED notResolver

\* Tool invocations dispatched concurrently: they interleave at the await.
Spec == Init /\ [][Next]_vars

NextSeq ==
    \/ \E p \in Invocations, n \in Names :
          NoneSuspended /\ FindStart(p, n) /\ UNCHANGED notResolver
    \/ \E p \in Invocations, out \in Outcomes : FindResume(p, out) /\ UNCHANGED notResolver
    \/ \E r \in Responses : InitializeNewrelic(r) /\ UNCHANGED notResolver

\* One invocation at a time.
SpecSeq == Init /\ [][NextSeq]_vars

\* One call of get_app_metric_data.
SpecMetric == Init /\ [][NextMetric]_vars

\* One call of get_top_database_operations.
SpecDb == Init /\ [][NextDb]_vars

\* One call of get_transaction_breakdown_segments.
SpecBreakdown == Init /\ [][NextBreakdown]_vars

\* One call of get_application_slow_transactions_details.
SpecSlow == Init /\ [][NextSlow]_vars

\* Tool invocations dispatched concurrently, on a server that has started.
SpecTools == Init /\ [][NextTools]_vars

\* One call of _make_request and one of _make_insights_request.
SpecAccess == Init /\ [][NextAccess]_vars

\* One call of _fetch_newrelic_applications_details.
SpecFetch == Init /\ [][NextFetch]_vars

\* One run of an entry point.
SpecStartup == Init /\ [][NextStartup]_vars

\* One call of each shaping operation after a request that failed or found nothing.
SpecTransport == Init /\ [][NextTransport]_vars

\* One call of get_transaction_breakdown_segments, query by query.
SpecBdSteps == Init /\ [][NextBdSteps]_vars

\* Tool invocations on a server whose remote system grows.
SpecRoster == Init /\ [][NextRoster]_vars

\* One invocation of get_application_slow_transactions_details.
SpecSlowTool == Init /\ [][NextSlowTool]_vars

(***************************************************************************)
(* The resolver's claims.                                                  *)
(***************************************************************************)
Done(p) == pc[p] \in {"returned", "raised"}

\* C1 (cache idempotence, one invocation at a time): an invocation that starts after
\* an invocation of the same name has returned issues no generation call and returns
\* the identifier that first invocation returned, whatever other names were resolved
\* and however often the roster was re-initialized in between.
C1_CacheIdempotence ==
    \A p \in Invocations :
        (pc[p] = "returned" /\ priorOk[p]) =>
            (calls[p] = 0 /\ ret[p] = firstRet[arg[p]])

\* A third invocation repeats the first one's name after another name was resolved
\* and the roster was re-initialized.
C1_Witness ==
    /\ MaxInvocations >= 3
    /\ \A p \in 1..3 : pc[p] = "returned"
    /\ arg[1] = arg[3] /\ arg[2] # arg[1]
    /\ calls[1] = 1 /\ calls[2] = 1
    /\ priorOk[3]
    /\ roster # <<>>

\* C2 as claimed: at most one generation call per application name, under any
\* interleaving of the invocations.
C2_AtMostOneCallPerName == \A n \in Names : genCalls[n] <= 1

\* C2 as amended: a generation call for a name is issued only in a state whose cache
\* has no entry for the name, one call at a time, and no invocation issues more than
\* one; so no invocation that starts after the entry was written issues a call.
C2_CallOnlyOnMiss ==
    /\ [][\A n \in Names :
            genCalls'[n] # genCalls[n] =>
                (~(n \in DOMAIN cache) /\ genCalls'[n] = genCalls[n] + 1)]_vars
    /\ [](\A p \in Invocations : calls[p] <= 1)

\* Two overlapping invocations of one name each issued a call, and a later invocation
\* of that name was served from the cache.
C2_Witness ==
    \E n \in Names :
        /\ genCalls[n] = 2
        /\ n \in DOMAIN cache
        /\ \E p \in Invocations : arg[p] = n /\ pc[p] = "returned" /\ calls[p] = 0

\* C3 as claimed: the cache is append-only; an entry, once written, is neither removed
\* nor given another value by any later step.
C3_CacheAppendOnly ==
    [][\A n \in DOMAIN cache : n \in DOMAIN cache' /\ cache'[n] = cache[n]]_vars

\* C4: when the generation call of an invocation that missed the cache succeeds, the
\* invocation returns the content as it came, the cache then maps the name to that
\* content (whether or not it is an id of the roster), and no other entry of the
\* cache is added, removed or changed.
C4_MissCachesVerbatim ==
    [][\A p \in Invocations :
          (pc[p] = "awaiting" /\ pc'[p] = "returned") =>
              /\ ret'[p] = resp'[p].content
              /\ DOMAIN cache' = DOMAIN cache \cup {arg[p]}
              /\ cache'[arg[p]] = resp'[p].content
              /\ \A m \in DOMAIN cache \ {arg[p]} : cache'[m] = cache[m]]_vars

\* With an empty roster, an invocation missed the cache and returned, and cached, an
\* identifier that no application of any roster has.
C4_Witness ==
    \E p \in Invocations :
        /\ pc[p] = "returned" /\ calls[p] = 1
        /\ roster = <<>>
        /\ ret[p] = "7" /\ cache[arg[p]] = "7"

\* C5 as claimed: an invocation whose generation call failed or answered with empty
\* content ends in a failure, returns no identifier and issued one call only.
C5_FailureOrEmptyPropagates ==
    \A p \in Invocations :
        (Done(p) /\ (resp[p].kind = "raise" \/ (resp[p].kind = "text" /\ resp[p].content = ""))) =>
            (pc[p] = "raised" /\ ret[p] = None /\ calls[p] = 1)

\* C5 as amended: an invocation whose generation call raised ends in that failure,
\* returns no identifier and issued one call only; one whose call answered with empty
\* content returns the empty content as the identifier, after one call only.
C5_RaisePropagatesEmptyReturned ==
    \A p \in Invocations :
        /\ resp[p].kind = "raise" => (pc[p] = "raised" /\ ret[p] = None /\ calls[p] = 1)
        /\ (resp[p].kind = "text" /\ resp[p].content = "") =>
               (pc[p] = "returned" /\ ret[p] = "" /\ calls[p] = 1)

\* One invocation's call raised and another's answered with empty content.
C5_Witness ==
    \E p, q \in Invocations :
        /\ resp[p].kind = "raise" /\ pc[p] = "raised"
        /\ resp[q].kind = "text" /\ resp[q].content = "" /\ pc[q] = "returned"

\* C20 as claimed: invocations of one name that all missed the cache, and so ran
\* their generation calls side by side, converge: those that returned all returned
\* the same identifier, and once none of them is suspended any more the cache maps
\* the name to that identifier.
C20_RacingWritersConverge ==
    \A p, q \in Invocations :
        (/\ arg[p] = arg[q]
         /\ calls[p] = 1 /\ calls[q] = 1
         /\ pc[p] = "returned" /\ pc[q] = "returned") =>
            /\ ret[p] = ret[q]
            /\ (\A r \in Invocations : arg[r] = arg[p] => pc[r] # "awaiting") =>
                   cache[arg[p]] = ret[p]

\* C29: the step in which an invocation's generation call raises ends the invocation
\* in the failure and leaves the cache as it was, with no entry inserted; so a later
\* invocation of the same name, unless another invocation of the name has returned
\* in between, misses the cache and issues a generation call of its own.
C29_FailedCallLeavesCacheAlone ==
    /\ [][\A p \in Invocations :
            (pc[p] = "awaiting" /\ resp'[p].kind = "raise") =>
                (cache' = cache /\ pc'[p] = "raised" /\ ret'[p] = None)]_vars
    /\ [](\A p, q \in Invocations :
            (/\ pc[p] = "raised" /\ p < q /\ pc[q] # "idle"
             /\ arg[q] = arg[p] /\ ~priorOk[q]) => calls[q] = 1)

\* The descriptors of the applications that came to exist in New Relic after
\* initialize_newrelic last ran.
AddedSinceLoad ==
    {[name |-> remote[i].name, id |-> remote[i].id] : i \in (loaded + 1)..Len(remote)}
Listed(list) == {list[i] : i \in 1..Len(list)}

\* C28: a step that changes the roster is no step of a resolve call or of a tool
\* invocation and no change of the remote system: it is initialize_newrelic.  So the
\* roster lists no application added since initialize_newrelic last ran, and a
\* system prompt, built from the roster as it is, lists none either.
C28_RosterChangedOnlyByInitialize ==
    /\ [][roster' # roster =>
            (/\ UNCHANGED <<cache, pc, arg, ret, resp, calls, started, genCalls>>
             /\ UNCHANGED <<toolVars, remote, prompt>>
             /\ loaded' = Len(remote))]_vars
    /\ [](Listed(roster) \cap AddedSinceLoad = {})
    /\ [][prompt' # prompt =>
            (/\ prompt'.applications = roster
             /\ Listed(prompt'.applications) \cap AddedSinceLoad = {})]_vars

\* The roster was loaded with one application; another was added in New Relic
\* since, and a prompt built after that lists the one application only.
C28_Witness ==
    /\ loaded = 1 /\ Len(roster) = 1
    /\ Len(remote) >= 2
    /\ prompt.kind = "prompt" /\ prompt.remoteAt >= 2
    /\ prompt.applications = roster
    /\ \E p \in Invocations : pc[p] = "returned" /\ toolOut[p] = "proceeded"
    /\ \E p \in Invocations : pc[p] = "raised"

\* The first invocation's call raised; the second, of the same name, issued a call
\* and its answer is the name's entry.
C29_Witness ==
    /\ pc[1] = "raised" /\ calls[1] = 1
    /\ arg[2] = arg[1] /\ calls[2] = 1 /\ pc[2] = "returned"
    /\ genCalls[arg[1]] = 2
    /\ cache[arg[1]] = ret[2]

(***************************************************************************)
(* The claims about get_app_metric_data.                                   *)
(***************************************************************************)
\* The rounded values of the numeric samples folded so far for a pair.
RoundedNumbers(pair) ==
    LET idx == {i \in 1..Len(folded[pair]) : IsNumber(folded[pair][i])}
    IN  [i \in idx |-> Round2(folded[pair][i].v)]

CountAtLeast(f, v) == Cardinality({i \in DOMAIN f : f[i] >= v})

\* C6 (top-values bound): after every folded sample, each pair's top_values has at
\* most 3 entries, is non-increasing by value, and holds the largest (up to three) of
\* the pair's numeric sample values, as rounded to two decimals: for every threshold
\* it has as many entries at or above it as the samples have, up to three.
C6_TopValuesBound ==
    \A pair \in DOMAIN formatted :
        LET top == formatted[pair].top_values
            values == [i \in 1..Len(top) |-> top[i].value]
            nums == RoundedNumbers(pair)
        IN  /\ Len(top) <= 3
            /\ \A i, j \in 1..Len(top) : i < j => values[i] >= values[j]
            /\ \A v \in {Round2(x) : x \in SampleNumbers} :
                   CountAtLeast(values, v) = Min(3, CountAtLeast(nums, v))

\* A pair has taken four numeric samples, the last of them larger than the first,
\* which is no longer among the three kept.
C6_Witness ==
    \E pair \in DOMAIN formatted :
        /\ Len(folded[pair]) >= 4
        /\ \A i \in 1..4 : IsNumber(folded[pair][i])
        /\ folded[pair][4].v > folded[pair][1].v
        /\ Len(formatted[pair].top_values) = 3
        /\ \A i \in 1..3 : formatted[pair].top_values[i].timestamp # 1

\* The numeric samples folded so far for a pair, and the last sample.
NumericSamples(pair) == {i \in 1..Len(folded[pair]) : IsNumber(folded[pair][i])}
LastSample(pair) == folded[pair][Len(folded[pair])]
NumericSum(pair) ==
    SumSeq([i \in 1..Len(folded[pair]) |->
               IF i \in NumericSamples(pair) THEN folded[pair][i].v ELSE 0])

\* C25: after every folded sample, and in what the call returns, current_value of a
\* pair is the last sample processed for it, rounded to two decimals when it is a
\* number and as it came otherwise; sum, count and top_values are those of the
\* numeric samples alone, and so is the returned avg_value (no value when the pair
\* had no numeric sample).
C25_CurrentValueIsLastSample ==
    /\ \A pair \in DOMAIN formatted :
           LET acc == formatted[pair]
               last == LastSample(pair)
           IN  /\ acc.current_value =
                      IF last.kind = "number" THEN Number(Round2(last.v)) ELSE last
               /\ acc.count = Cardinality(NumericSamples(pair))
               /\ acc.sum = NumericSum(pair)
               /\ Len(acc.top_values) = Min(3, Cardinality(NumericSamples(pair)))
               /\ \A k \in 1..Len(acc.top_values) :
                      \E i \in NumericSamples(pair) :
                          acc.top_values[k].value = Round2(folded[pair][i].v)
    /\ mOut.kind = "series" =>
           /\ DOMAIN mOut.metrics = DOMAIN formatted
           /\ \A pair \in DOMAIN formatted :
                  /\ mOut.metrics[pair].current_value = formatted[pair].current_value
                  /\ mOut.metrics[pair].top_values = formatted[pair].top_values
                  /\ mOut.metrics[pair].avg_value =
                         IF NumericSamples(pair) = {} THEN NoValue
                         ELSE Number(RoundDiv(NumericSum(pair),
                                              10 * Cardinality(NumericSamples(pair))))

\* The call has returned; a pair took two numbers and then a value that is none:
\* its current_value is that value, its average that of the two numbers.
C25_Witness ==
    /\ mOut.kind = "series"
    /\ \E pair \in DOMAIN formatted :
           /\ Len(folded[pair]) = 3
           /\ NumericSamples(pair) = {1, 2}
           /\ folded[pair][1].v # folded[pair][2].v
           /\ mOut.metrics[pair].current_value = NotANumber
           /\ mOut.metrics[pair].avg_value.kind = "number"
           /\ Len(mOut.metrics[pair].top_values) = 2

\* C26: when the request handed back a result that is no error and has no metric
\* data, the call returns a mapping whose keys are the requested metric names, all
\* of them and no other, each mapped to the no-data marker.
C26_NoDataForEveryRequestedName ==
    mIn = "nodata" =>
        /\ mOut.kind = "nodata"
        /\ DOMAIN mOut.metrics = mNames
        /\ \A m \in mNames : mOut.metrics[m] = NoData

\* Two names were requested and both map to the marker.
C26_Witness ==
    /\ mIn = "nodata"
    /\ Cardinality(mNames) = 2
    /\ mOut.kind = "nodata"
    /\ \A m \in mNames : mOut.metrics[m] = "N/A (No data)"

(***************************************************************************)
(* The claims about get_top_database_operations.                           *)
(***************************************************************************)
DbOps == IF dbOut.kind = "ops" THEN dbOut.database_operations ELSE <<>>

\* C8 as claimed: query_latency is true exactly when the returned avg_query_time_ms
\* is greater than 8.0.
C8_LatencyFlagOfReturnedValue ==
    \A i \in 1..Len(DbOps) :
        DbOps[i].query_latency = (DbOps[i].avg_query_time_ms * 10 > QueryLatencyThreshold)

\* C8 as amended: query_latency is true exactly when the facet's average query time
\* as the query reported it, before rounding, is greater than 8.0; so a returned
\* avg_query_time_ms above 8.0 has the flag, and a flagged one is at least 8.0.
C8_LatencyFlagOfRawValue ==
    \A i \in 1..Len(DbOps) :
        /\ DbOps[i].query_latency = (dbIn.facets[DbOps[i].facet].avg > QueryLatencyThreshold)
        /\ DbOps[i].avg_query_time_ms * 10 > QueryLatencyThreshold => DbOps[i].query_latency
        /\ DbOps[i].query_latency => DbOps[i].avg_query_time_ms * 10 >= QueryLatencyThreshold

\* Two operations are returned with avg_query_time_ms 8.0, one flagged and one not.
C8_Witness ==
    \E i, j \in 1..Len(DbOps) :
        /\ DbOps[i].avg_query_time_ms = 800 /\ DbOps[i].query_latency
        /\ DbOps[j].avg_query_time_ms = 800 /\ ~DbOps[j].query_latency

\* C9: the returned sequence is non-increasing in avg_query_time_ms, and operations
\* with equal avg_query_time_ms are in the order of their facets in the result.
C9_SortedStable ==
    \A i, j \in 1..Len(DbOps) :
        i < j =>
            /\ DbOps[i].avg_query_time_ms >= DbOps[j].avg_query_time_ms
            /\ DbOps[i].avg_query_time_ms = DbOps[j].avg_query_time_ms =>
                   DbOps[i].facet < DbOps[j].facet

\* Three operations are returned, the first from a later facet than the second, and
\* the last two with equal avg_query_time_ms.
C9_Witness ==
    /\ Len(DbOps) = 3
    /\ DbOps[1].facet > DbOps[2].facet
    /\ DbOps[2].avg_query_time_ms = DbOps[3].avg_query_time_ms

\* C13 as claimed: on success the tool's database_operations field is the sequence
\* of summaries get_top_database_operations produced, and its count field is the
\* number of summaries in that sequence.
C13_OperationsAndCount ==
    dbTool.kind = "result" =>
        /\ dbTool.database_operations.type = "list"
        /\ dbTool.count = Len(DbOps)

\* The name component as the summary must carry it.
Component(x) == IF x = "" THEN "unknown" ELSE x

\* C27: a call that got a facet list returns without raising, with one summary for
\* each facet whose name has three components and whose results list has the three
\* entries read, and none for any other facet; every summary carries its facet's
\* three name components, "unknown" in the place of one the facet lacks.
C27_OneSummaryPerThreeNamedFacet ==
    (dbIn.kind = "facets") =>
        LET good == {i \in 1..Len(dbIn.facets) :
                        Len(dbIn.facets[i].name) = 3 /\ dbIn.facets[i].nres >= 3}
        IN  /\ dbOut.kind = "ops"
            /\ Len(DbOps) = Cardinality(good)
            /\ {DbOps[i].facet : i \in 1..Len(DbOps)} = good
            /\ \A i \in 1..Len(DbOps) :
                   LET name == dbIn.facets[DbOps[i].facet].name
                   IN  /\ DbOps[i].datastoreType = Component(name[1])
                       /\ DbOps[i].table = Component(name[2])
                       /\ DbOps[i].operation = Component(name[3])
                       /\ "" \notin {DbOps[i].datastoreType, DbOps[i].table, DbOps[i].operation}

\* Of three facets one has a name of two components and one a results list of two
\* entries; the one summary returned is that of the third, whose table the facet
\* lacks.
C27_Witness ==
    /\ dbIn.kind = "facets"
    /\ Len(dbIn.facets) = 3
    /\ \E i \in 1..3 : Len(dbIn.facets[i].name) = 2
    /\ \E i \in 1..3 : dbIn.facets[i].nres = 2
    /\ Len(DbOps) = 1
    /\ dbIn.facets[DbOps[1].facet].name[2] = ""
    /\ DbOps[1].table = "unknown"

(***************************************************************************)
(* The claims about get_transaction_breakdown_segments.                    *)
(***************************************************************************)
BdSegs == IF bdOut.kind = "breakdown" THEN bdOut.segments ELSE <<>>
BdInFacets == IF bdOut.kind = "breakdown" THEN bdIn.second.facets ELSE <<>>
AcceptedFacets == {i \in 1..Len(BdInFacets) : BdAccepted(BdInFacets[i])}
\* The grand total of segment time, in thousandths of a millisecond.
GrandTotal == SumSeq([i \in 1..Len(BdInFacets) |->
                         IF i \in AcceptedFacets THEN BdInFacets[i].sum ELSE 0])
PercentageSum == SumSeq([i \in 1..Len(BdSegs) |-> BdSegs[i].percentage])
\* Rounding to two decimals moves a percentage by at most 0.005; 0.01 for each
\* segment is allowed here.
WithinTolerance(sum, n) == sum - 10000 <= n /\ 10000 - sum <= n

\* C7 as claimed: when the grand total of segment time is greater than 0 the
\* percentages add up to 100 within the rounding tolerance and none is negative;
\* when it is 0 every percentage is 0.
C7_PercentagesAddUpTo100 ==
    bdOut.kind = "breakdown" =>
        /\ GrandTotal > 0 =>
              /\ WithinTolerance(PercentageSum, Len(BdSegs))
              /\ \A i \in 1..Len(BdSegs) : BdSegs[i].percentage >= 0
        /\ GrandTotal = 0 => \A i \in 1..Len(BdSegs) : BdSegs[i].percentage = 0

\* C10: the returned segments are non-increasing in percentage, and they are the
\* segments of the accepted facets, each once: as many as accepted facets, one from
\* each, carrying its facet's name.
C10_SegmentsSortedAndComplete ==
    bdOut.kind = "breakdown" =>
        /\ \A i, j \in 1..Len(BdSegs) : i < j => BdSegs[i].percentage >= BdSegs[j].percentage
        /\ Len(BdSegs) = Cardinality(AcceptedFacets)
        /\ {BdSegs[i].facet : i \in 1..Len(BdSegs)} = AcceptedFacets
        /\ \A i \in 1..Len(BdSegs) : BdSegs[i].segment = BdInFacets[BdSegs[i].facet].name

\* Of three facets one was skipped, and the two segments returned are in the
\* opposite order of their facets, with different percentages.
C10_Witness ==
    /\ bdOut.kind = "breakdown"
    /\ Len(BdInFacets) = 3
    /\ Len(BdSegs) = 2
    /\ BdSegs[1].facet > BdSegs[2].facet
    /\ BdSegs[1].percentage > BdSegs[2].percentage

\* C17: the total transaction count the first query reports is floored to 1 when it
\* is 0 and used unchanged when it is greater: the returned total_transaction_count
\* is that divisor, it is never 0, and every segment's avg_calls_txn is its facet's
\* call count divided by it, rounded to two decimals.
C17_CountFlooredToOne ==
    bdOut.kind = "breakdown" =>
        LET reported == bdIn.first.count
            divisor == bdOut.total_transaction_count
        IN  /\ reported = 0 => divisor = 1
            /\ reported > 0 => divisor = reported
            /\ divisor >= 1
            /\ \A i \in 1..Len(BdSegs) :
                   BdSegs[i].avg_calls_txn =
                       RoundDiv(BdInFacets[BdSegs[i].facet].count * 100,
                                IF reported = 0 THEN 1 ELSE reported)

\* The first query reported no transaction, and a breakdown is returned, with a
\* total_transaction_count of 1 and a segment of 4 calls whose avg_calls_txn is 4.0.
C17_Witness ==
    /\ bdOut.kind = "breakdown"
    /\ bdIn.first.count = 0
    /\ bdOut.total_transaction_count = 1
    /\ \E i \in 1..Len(BdSegs) :
           BdInFacets[BdSegs[i].facet].count = 4 /\ BdSegs[i].avg_calls_txn = 400

\* C21: the segment query is issued only after the transaction-total query, and only
\* when that one handed back a result that is no error: a call whose first query
\* failed has returned {error} with that one query issued and no other.
C21_SecondQueryAfterFirstSucceeded ==
    /\ bdQueries \in {<<>>, <<"transaction_total_query">>,
                      <<"transaction_total_query", "transaction_breakdown_query">>}
    /\ Len(bdQueries) = 2 => bdIn.first.kind = "ok"
    /\ (bdPc # "idle" /\ bdIn.first.kind = "error") =>
           /\ bdPc = "done"
           /\ bdOut.kind = "error"
           /\ bdQueries = <<"transaction_total_query">>

\* The first query failed and the call is over, with {error} returned.
C21_Witness ==
    /\ bdPc = "done"
    /\ bdIn.first.kind = "error"
    /\ bdOut.kind = "error"
    /\ Len(bdQueries) = 1

\* What the call was given, once it has been made.
BdCalled == bdIn.kind = "results"
\* A facet with a name and a results list ...
NamedWithResults(f) == f.name # <<>> /\ f.nres > 0
\* ... of fewer than the three entries the loop reads.
ShortFacet(f) == NamedWithResults(f) /\ f.nres < 3
WellFormed(f) == NamedWithResults(f) /\ f.nres >= 3
SecondFacets == IF BdCalled THEN bdIn.second.facets ELSE <<>>
FirstEntries ==
    IF ~BdCalled \/ bdIn.first.kind # "ok" THEN 0
    ELSE IF bdIn.first.hasResults THEN bdIn.first.nres ELSE 0

\* C23 as claimed: a call that got its transaction count and a list of facets returns
\* a breakdown whatever facets are malformed, with one segment for each well-formed
\* facet and none for a facet whose results list is short.
C23_MalformedFacetSkipped ==
    (BdCalled /\ FirstEntries >= 2 /\ bdIn.second.kind = "facets") =>
        /\ bdOut.kind = "breakdown"
        /\ {bdOut.segments[i].facet : i \in 1..Len(bdOut.segments)} =
               {i \in 1..Len(SecondFacets) : WellFormed(SecondFacets[i])}

\* C24: a facet without a name or without results yields no segment and adds
\* nothing to the grand total: the segments are those of the facets that have both,
\* total_time_ms is the sum over these facets alone, rounded, and every percentage
\* is the segment's own total over that sum.
C24_SkippedFacetsContributeNothing ==
    bdOut.kind = "breakdown" =>
        LET kept == {i \in 1..Len(SecondFacets) : NamedWithResults(SecondFacets[i])}
            total == SumSeq([i \in 1..Len(SecondFacets) |->
                                IF i \in kept THEN SecondFacets[i].sum ELSE 0])
        IN  /\ {BdSegs[i].facet : i \in 1..Len(BdSegs)} = kept
            /\ Len(BdSegs) = Cardinality(kept)
            /\ bdOut.total_time_ms = Round2(total)
            /\ \A i \in 1..Len(BdSegs) :
                   BdSegs[i].percentage =
                       IF total > 0
                       THEN RoundDiv(Round2(SecondFacets[BdSegs[i].facet].sum) * 100000, total)
                       ELSE 0

\* Of three facets one has no name and one has no results, both with a sum greater
\* than 0; the breakdown has the one segment of the third, with a percentage.
C24_Witness ==
    /\ bdOut.kind = "breakdown"
    /\ Len(SecondFacets) = 3
    /\ \E i \in 1..3 : SecondFacets[i].name = <<>> /\ SecondFacets[i].sum > 0
    /\ \E i \in 1..3 : SecondFacets[i].nres = 0 /\ SecondFacets[i].sum > 0
    /\ Len(BdSegs) = 1
    /\ BdSegs[1].percentage > 0

\* C30 as claimed: whatever the first query handed back that is no error (no results
\* key, an empty results list, a list of one entry or of two), the call returns a
\* breakdown or {error}; facets that would make the loop raise are set aside here.
C30_FirstResultNeverRaises ==
    (/\ BdCalled
     /\ bdIn.first.kind = "ok"
     /\ \A i \in 1..Len(SecondFacets) : ~ShortFacet(SecondFacets[i])) =>
        bdOut.kind \in {"breakdown", "error"}

(***************************************************************************)
(* The claims about get_slow_transactions and the tool that calls it.      *)
(***************************************************************************)
SlowOut == IF stOut.kind = "transactions" THEN stOut.transactions ELSE <<>>
SlowInFacets == IF stIn.kind = "facets" THEN stIn.facets ELSE <<>>
\* The positions, in the result, of the facets the returned summaries were made of.
SlowOutFacets == [i \in 1..Len(SlowOut) |-> SlowOut[i].facet]
Increasing(s) == \A i, j \in 1..Len(s) : i < j => s[i] < s[j]

\* A facet with every key the code reads: "name", "results", seven results entries
\* and a number under the value key of each.
SlowComplete(f) ==
    /\ f.hasName /\ f.hasResults
    /\ Len(f.results) >= 7
    /\ \A k \in 1..7 : f.results[k].kind = "number"

\* A facet on which the extraction does not raise: as above, except that an entry
\* of results may lack its value key.
SlowExtractable(f) ==
    /\ f.hasName /\ f.hasResults
    /\ Len(f.results) >= 7
    /\ \A k \in 1..7 : f.results[k].kind \in {"number", "absent"}

\* C11 as claimed: for a non-error result whose facet list holds N well-formed facets
\* among malformed ones (a missing key, a short results list, a value that is no
\* number), the call raises nothing and returns exactly N summaries, those of the
\* well-formed facets in their order.
C11_OneSummaryPerWellFormedFacet ==
    stIn.kind \in {"nofacets", "facets"} =>
        /\ stOut.kind = "transactions"
        /\ Len(SlowOut) = Cardinality({i \in 1..Len(SlowInFacets) : SlowComplete(SlowInFacets[i])})
        /\ Increasing(SlowOutFacets)
        /\ \A i \in 1..Len(SlowOut) : SlowComplete(SlowInFacets[SlowOut[i].facet])

\* C11 as amended: the call raises nothing and returns one summary for each facet on
\* which the extraction does not raise, in the order of the facets; a facet with a
\* results entry that lacks its value key is among them, summarised with 0 there.
C11_OneSummaryPerExtractableFacet ==
    stIn.kind \in {"nofacets", "facets"} =>
        /\ stOut.kind = "transactions"
        /\ Len(SlowOut) = Cardinality({i \in 1..Len(SlowInFacets) : SlowExtractable(SlowInFacets[i])})
        /\ Increasing(SlowOutFacets)
        /\ \A i \in 1..Len(SlowOut) :
              /\ SlowExtractable(SlowInFacets[SlowOut[i].facet])
              /\ SlowOut[i].name = SlowInFacets[SlowOut[i].facet].name

\* Of three facets the first raises during extraction; the other two are summarised,
\* one of them with an entry that lacks its value key.
C11_Witness ==
    /\ Len(SlowInFacets) = 3
    /\ ~SlowExtractable(SlowInFacets[1])
    /\ Len(SlowOut) = 2
    /\ \E i \in 1..2 : ~SlowComplete(SlowInFacets[SlowOut[i].facet])

\* C12 as claimed: when the slow-transaction list was fetched, the tool returns a
\* result (it does not raise) whose transactions each come from a transaction of the
\* list, in order, and whose count is the length of its transactions.
C12_PartialListAccurateCount ==
    (stOut.kind = "transactions" /\ sdOut.kind # "none") =>
        /\ sdOut.kind = "result"
        /\ sdOut.count = Len(sdOut.transactions)
        /\ Increasing([i \in 1..Len(sdOut.transactions) |-> sdOut.transactions[i].facet])


\* C22 as claimed: when the tool has returned or raised, the Resolver was invoked
\* once, with the name the tool was given; one generation call at most was issued and
\* the cache has no entry but the one of that name; and the breakdown computations
\* have run, one for each transaction of the list, five at most.
C22_ResolvedOnceForAllBreakdowns ==
    sdOut.kind # "none" =>
        /\ started = 1 /\ arg[1] = sdName
        /\ \A n \in Names : genCalls[n] <= (IF n = sdName THEN 1 ELSE 0)
        /\ DOMAIN cache \subseteq {sdName}
        /\ sdRuns <= 5
        /\ stOut.kind = "transactions" => sdRuns = Min(5, Len(stOut.transactions))

(***************************************************************************)
(* The claims about requests that fail.                                    *)
(***************************************************************************)
\* C14 as claimed: each of the five shaping operations, handed an {error} object by
\* the access layer, returns an {error} result: it runs no shaping and raises nothing.
C14_ErrorInputShortCircuits ==
    /\ mIn = "error" => mOut.kind = "error"
    /\ stIn.kind = "error" => stOut.kind = "error"
    /\ dbIn.kind = "error" => dbOut.kind = "error"
    /\ tdIn.kind = "error" => tdOut.kind = "error"
    /\ (bdIn.kind = "results" /\ bdIn.first.kind = "error") => bdOut.kind = "error"
    /\ (bdIn.kind = "results" /\ bdIn.second.kind = "error") => bdOut.kind = "error"

\* C15: the access layer never raises.  Whatever the network call comes to, either
\* function returns the decoded body (when the call and the decoding succeeded) or an
\* {error} object (when anything was raised); and _make_request without an API key
\* returns {error} and makes no network call.
C15_AccessLayerNeverRaises ==
    /\ rqOut.kind \in {"none", "json", "error"}
    /\ iqOut.kind \in {"none", "json", "error"}
    /\ rqOut.kind = "json" =>
           (rqIn.outcome.kind = "body" /\ rqOut.body = rqIn.outcome.body)
    /\ iqOut.kind = "json" =>
           (iqIn.outcome.kind = "body" /\ iqOut.body = iqIn.outcome.body)
    /\ (rqIn.kind = "request" /\ rqIn.outcome.kind = "raise") => rqOut.kind = "error"
    /\ (iqIn.kind = "request" /\ iqIn.outcome.kind = "raise") => iqOut.kind = "error"
    /\ (rqIn.kind = "request" /\ rqIn.key \in {"", None}) =>
           (rqOut.kind = "error" /\ netCalls["_make_request"] = 0)

\* _make_request was called without a key, and the network call of
\* _make_insights_request ended in an exception that is no RequestException.
C15_Witness ==
    /\ rqIn.kind = "request" /\ rqIn.key = None /\ rqOut.kind = "error"
    /\ iqIn.kind = "request" /\ iqIn.outcome.class = "TypeError" /\ iqOut.kind = "error"

(***************************************************************************)
(* The claim about startup.                                                *)
(***************************************************************************)
\* C16 as claimed: the steps of a startup occur in the order load configuration,
\* validate credentials, initialize roster, accept tool calls: no tool call is
\* accepted, and the server does not serve, before the roster is initialized; the
\* roster is initialized only with every credential present; and a run with a
\* missing credential stops with a non-zero status, its roster not initialized and
\* its server not started.
C16_StartupOrder ==
    /\ suAccepted > 0 => suRoster
    /\ suPc = "serving" => suRoster
    /\ suRoster => AllPresent(suConfig)
    /\ (suPc \in {"validated", "initialized", "serving"}) => AllPresent(suConfig)
    /\ (suPc = "exited" /\ ~AllPresent(suConfig)) =>
           (suStatus # 0 /\ ~suRoster /\ suAccepted = 0)

(***************************************************************************)
(* The claim about _fetch_newrelic_applications_details.                   *)
(***************************************************************************)
FetchedApps == IF faIn.kind = "response" /\ ~faIn.response.error
               THEN faIn.response.applications ELSE <<>>
\* The positions of the applications that are not marked grey, those without a
\* health_status among them.
NotGrey == {i \in 1..Len(FetchedApps) : FetchedApps[i].health_status # "grey"}
\* The k-th of them.
NthNotGrey(k) == CHOOSE i \in NotGrey : Cardinality({j \in NotGrey : j <= i}) = k

\* C18 as claimed: the call returns one {name, id} descriptor for each application
\* of the response that is not marked grey, whether or not it carries a
\* health_status, in the order of the response, and none for a grey one.
C18_OneDescriptorPerNonGreyApp ==
    faIn.kind = "response" =>
        /\ ~faOut.raised
        /\ Len(faOut.list) = Cardinality(NotGrey)
        /\ \A k \in 1..Len(faOut.list) :
               faOut.list[k] = [name |-> FetchedApps[NthNotGrey(k)].name,
                                id |-> FetchedApps[NthNotGrey(k)].id]

(***************************************************************************)
(* The claim about a resolution that fails inside a tool.                  *)
(***************************************************************************)
\* C19: an invocation whose generation call raised ends in a failure reported to the
\* caller, the error string for get_newrelic_apm_metrics and the exception for
\* the other tools, and has issued no query to the access layer; the step in which
\* it fails changes neither the cache nor any other invocation, and every
\* invocation whose resolution returned, before or after, proceeds to its queries.
C19_ResolutionFailureConfined ==
    /\ [](\A p \in Invocations :
            /\ resp[p].kind = "raise" =>
                   /\ toolOut[p] = (IF tool[p] = "get_newrelic_apm_metrics"
                                    THEN "error string" ELSE "exception")
                   /\ ~queried[p]
            /\ pc[p] = "returned" => (toolOut[p] = "proceeded" /\ queried[p]))
    /\ [][\A p \in Invocations :
            (pc[p] = "awaiting" /\ pc'[p] = "raised") =>
                /\ cache' = cache
                /\ \A q \in Invocations \ {p} :
                       pc'[q] = pc[q] /\ toolOut'[q] = toolOut[q] /\ queried'[q] = queried[q]]_vars

\* The generation call of a get_newrelic_apm_metrics invocation and that of another
\* tool's invocation raised, and an invocation started after both, for the name of
\* one of them, was served.
C19_Witness ==
    \E p, q, r \in Invocations :
        /\ p < r /\ q < r
        /\ resp[p].kind = "raise" /\ tool[p] = "get_newrelic_apm_metrics"
        /\ resp[q].kind = "raise" /\ tool[q] # "get_newrelic_apm_metrics"
        /\ arg[r] = arg[p] /\ toolOut[r] = "proceeded" /\ calls[r] = 1

=============================================================================
